---------------------------- MODULE Spec2Model ----------------------------
(***************************************************************************)
(* Propositional-logic parser: lexer (parser.rs lex), recursive-descent    *)
(* parser (parser.rs Parser), truth-table generation, evaluation and the   *)
(* entailment loop (main.rs).                                              *)
(*                                                                         *)
(* The program is sequential.  Each stage is modelled as a state machine   *)
(* of its own over the shared variables below; the stage that is running   *)
(* is named by pc:                                                         *)
(*   SpecLex    lex() on a character string                                *)
(*   SpecParse  Parser::parse() on token vectors, called formula by        *)
(*              formula as main's loop does                                *)
(*   SpecGen    generate_truth_values() on an atom map                     *)
(*   SpecEval   evaluate() on an AST and an assignment                     *)
(*   SpecMain   main's entailment computation on parsed formulas           *)
(***************************************************************************)
EXTENDS Integers, Sequences, FiniteSets, TLC

VARIABLES
    pc,                   \* control state of the running stage
    error,                \* panic message, "" while none
    input,                \* lex: the &str being lexed, a sequence of characters
    cursor,               \* lex: end of the last regex match (find_iter position)
    tokens,               \* lex: Vec<Token> built so far; parser: Parser.tokens
    last_token_was_atom,  \* lex local
    in_conditional,       \* lex local
    formulas,             \* main: the token vectors of the formulas, in input order
    fidx,                 \* main: index of the formula being parsed
    pos,                  \* parser: number of tokens the iterator has yielded
    stack,                \* parser: call stack of the recursive descent
    ret,                  \* parser: value returned by the callee that just returned
    used,                 \* history: tokens consumed by each parse() that returned an AST
    knowledge_base,       \* main: Vec<AstNode> of parsed formulas
    alpha_ast,            \* main: the formula to check
    atoms,                \* main: HashMap<String, ()>, its key set
    atom_names,           \* generate_truth_values: atoms.keys() in iteration order
    truth_values,         \* Vec<HashMap<String, bool>>
    combination,          \* generate_truth_values: loop counter (= index)
    ta,                   \* main: number of assignments the verdict loop has visited
    valid,                \* main: the verdict
    ast,                  \* evaluate: argument
    truth_assignment,     \* evaluate: argument
    value                 \* evaluate: result

vars == << pc, error, input, cursor, tokens, last_token_was_atom, in_conditional,
           formulas, fidx, pos, stack, ret, used, knowledge_base, alpha_ast, atoms, atom_names,
           truth_values, combination, ta, valid, ast, truth_assignment, value >>

lexVars   == << input, cursor, last_token_was_atom, in_conditional >>
parseVars == << formulas, fidx, pos, stack, ret, used >>
mainVars  == << alpha_ast, atoms, atom_names, truth_values, combination, ta, valid >>
evalVars  == << ast, truth_assignment, value >>

(***************************************************************************)
(* Tokens and AST nodes                                                    *)
(***************************************************************************)
Tok(t) == [type |-> t]
AtomTok(n) == [type |-> "Atom", name |-> n]

Atom(n)    == [kind |-> "Atom", name |-> n]
Not(x)     == [kind |-> "Not", sub |-> x]
And(l, r)  == [kind |-> "And", left |-> l, right |-> r]
Or(l, r)   == [kind |-> "Or", left |-> l, right |-> r]
If(l, r)   == [kind |-> "If", left |-> l, right |-> r]
Iff(l, r)  == [kind |-> "Iff", left |-> l, right |-> r]

\* Option<AstNode>
None == [some |-> FALSE]
Some(x) == [some |-> TRUE, node |-> x]
\* no callee has returned
NoRet == [pendingCall |-> TRUE]

(***************************************************************************)
(* lex                                                                     *)
(***************************************************************************)
Alpha == {"a","b","c","d","e","f","g","h","i","j","k","l","m",
          "n","o","p","q","r","s","t","u","v","w","x","y","z",
          "A","B","C","D","E","F","G","H","I","J","K","L","M",
          "N","O","P","Q","R","S","T","U","V","W","X","Y","Z"}
Parens == {"(", ")"}

\* Start of the next match of [a-zA-Z]+|not|and|or|if|iff|then|\(|\) at or after
\* position from (1-based), 0 when there is none.
MatchStart(s, from) ==
    LET C == {i \in from..Len(s) : s[i] \in Alpha \cup Parens}
    IN IF C = {} THEN 0 ELSE CHOOSE i \in C : \A j \in C : i <= j

\* End of the match starting at i: the alternation is leftmost-first and the
\* first alternative [a-zA-Z]+ is greedy, so a letter starts a maximal run.
MatchEnd(s, i) ==
    IF s[i] \in Parens THEN i
    ELSE CHOOSE j \in i..Len(s) :
            /\ \A k \in i..j : s[k] \in Alpha
            /\ (j = Len(s) \/ s[j+1] \notin Alpha)

HasMatch == MatchStart(input, cursor + 1) # 0
MatchText == LET i == MatchStart(input, cursor + 1)
             IN SubSeq(input, i, MatchEnd(input, i))
MatchStop == MatchEnd(input, MatchStart(input, cursor + 1))

KwNot  == <<"n","o","t">>
KwAnd  == <<"a","n","d">>
KwOr   == <<"o","r">>
KwIf   == <<"i","f">>
KwIff  == <<"i","f","f">>
KwThen == <<"t","h","e","n">>
KwOpen == <<"(">>
KwClose == <<")">>
Keywords == {KwNot, KwAnd, KwOr, KwIf, KwIff, KwThen, KwOpen, KwClose}

LexArm(text) == pc = "lex" /\ HasMatch /\ MatchText = text

\* arms "not", "and", "or", "(", ")": push the token, clear the atom flag
LexPlain(text, t) ==
    /\ LexArm(text)
    /\ tokens' = Append(tokens, Tok(t))
    /\ last_token_was_atom' = FALSE
    /\ cursor' = MatchStop
    /\ UNCHANGED << pc, error, input, in_conditional >>

LexNot == LexPlain(KwNot, "Not") /\ UNCHANGED << parseVars, knowledge_base, mainVars, evalVars >>
LexAnd == LexPlain(KwAnd, "And") /\ UNCHANGED << parseVars, knowledge_base, mainVars, evalVars >>
LexOr == LexPlain(KwOr, "Or") /\ UNCHANGED << parseVars, knowledge_base, mainVars, evalVars >>
LexOpenParen == LexPlain(KwOpen, "OpenParen") /\ UNCHANGED << parseVars, knowledge_base, mainVars, evalVars >>
LexCloseParen == LexPlain(KwClose, "CloseParen") /\ UNCHANGED << parseVars, knowledge_base, mainVars, evalVars >>

\* arms "if", "iff"
LexOpener(text, t) ==
    /\ LexArm(text)
    /\ tokens' = Append(tokens, Tok(t))
    /\ in_conditional' = TRUE
    /\ last_token_was_atom' = FALSE
    /\ cursor' = MatchStop
    /\ UNCHANGED << pc, error, input >>

LexIf == LexOpener(KwIf, "If") /\ UNCHANGED << parseVars, knowledge_base, mainVars, evalVars >>
LexIff == LexOpener(KwIff, "Iff") /\ UNCHANGED << parseVars, knowledge_base, mainVars, evalVars >>

\* the test of the "then" arm
ThenAllowed == in_conditional

\* arm "then"
LexThen ==
    /\ LexArm(KwThen)
    /\ cursor' = MatchStop
    /\ IF ~ThenAllowed
       THEN /\ pc' = "panic"
            /\ error' = "Unexpected 'then' keyword without preceding 'if'"
            /\ UNCHANGED << tokens, last_token_was_atom >>
       ELSE /\ tokens' = Append(tokens, Tok("Then"))
            /\ last_token_was_atom' = FALSE
            /\ UNCHANGED << pc, error >>
    /\ UNCHANGED << input, in_conditional >>
    /\ UNCHANGED << parseVars, knowledge_base, mainVars, evalVars >>

\* a lexer that never sees two atoms in a row
AtomClashNever == FALSE

\* the test of the atom arm
AtomClash == last_token_was_atom

\* arm atom: the token is pushed before the adjacency test
LexAtom ==
    /\ pc = "lex" /\ HasMatch /\ MatchText \notin Keywords
    /\ tokens' = Append(tokens, AtomTok(MatchText))
    /\ cursor' = MatchStop
    /\ IF AtomClash
       THEN /\ pc' = "panic"
            /\ error' = "Expected operator between atoms"
            /\ UNCHANGED last_token_was_atom
       ELSE /\ last_token_was_atom' = TRUE
            /\ UNCHANGED << pc, error >>
    /\ UNCHANGED << input, in_conditional >>
    /\ UNCHANGED << parseVars, knowledge_base, mainVars, evalVars >>

\* find_iter is exhausted: lex returns tokens
LexEnd ==
    /\ pc = "lex" /\ ~HasMatch
    /\ pc' = "lexed"
    /\ cursor' = Len(input)
    /\ UNCHANGED << error, input, tokens, last_token_was_atom, in_conditional >>
    /\ UNCHANGED << parseVars, knowledge_base, mainVars, evalVars >>

LexNext == \/ LexNot \/ LexAnd \/ LexOr \/ LexIf \/ LexIff \/ LexThen
           \/ LexOpenParen \/ LexCloseParen \/ LexAtom \/ LexEnd

(***************************************************************************)
(* Inputs of lex: strings put together from pieces                         *)
(***************************************************************************)
RECURSIVE Concat(_)
Concat(ss) == IF ss = <<>> THEN <<>> ELSE Head(ss) \o Concat(Tail(ss))

SeqsUpTo(S, n) == UNION {[1..k -> S] : k \in 0..n}

MaxPieces == 3
MaxCondPieces == 6

\* words, keywords and separators, glued without anything in between
Pieces == {<<"a">>, <<"b">>, KwNot, KwAnd, KwOr, KwIf, KwIff, KwThen,
           KwOpen, KwClose, <<" ">>, <<"1">>}
\* conditionals as they are typed: every word followed by a blank
CondPieces == {<<"a", " ">>, KwIf \o <<" ">>, KwIff \o <<" ">>, KwThen \o <<" ">>}

LexInit ==
    /\ pc = "lex"
    /\ error = ""
    /\ \/ \E ps \in SeqsUpTo(Pieces, MaxPieces) : input = Concat(ps)
       \/ \E ps \in SeqsUpTo(CondPieces, MaxCondPieces) : input = Concat(ps)
    /\ cursor = 0 /\ tokens = <<>>
    /\ last_token_was_atom = FALSE /\ in_conditional = FALSE
    /\ formulas = <<>> /\ fidx = 0 /\ pos = 0 /\ stack = <<>> /\ ret = NoRet /\ used = <<>>
    /\ knowledge_base = <<>> /\ alpha_ast = None
    /\ atoms = {} /\ atom_names = <<>> /\ truth_values = <<>>
    /\ combination = 0 /\ ta = 0 /\ valid = TRUE
    /\ ast = None /\ truth_assignment = <<>> /\ value = FALSE

SpecLex == LexInit /\ [][LexNext]_vars

(***************************************************************************)
(* Parser                                                                  *)
(*                                                                         *)
(* The recursive descent is run on an explicit call stack.  A frame is     *)
(* [fn, at, entry, ...]: the function, the place in its body where it      *)
(* waits for a callee, and the value of pos when it was called.  The top   *)
(* of the stack is the last element.  A callee returns by popping its      *)
(* frame and leaving its Option<AstNode> in ret.                           *)
(***************************************************************************)
Top == stack[Len(stack)]
Pop == SubSeq(stack, 1, Len(stack) - 1)
ReplaceTop(f) == [stack EXCEPT ![Len(stack)] = f]

\* self.tokens.peek() / self.tokens.next() on Peekable<IntoIter<Token>>
AtEnd == pos >= Len(tokens)
Peek == IF AtEnd THEN Tok("EOF") ELSE tokens[pos + 1]
\* an iterator whose next() yields the token and stays on it
AdvanceStuck == pos

Advance == IF AtEnd THEN pos ELSE pos + 1

Frame(f, p) == [fn |-> f, at |-> "start", entry |-> p]
At(a) == [Top EXCEPT !.at = a]
\* parse_binary_op keeps left and op; prims and opsSeen log the operands and
\* operators it has folded (history, read by no action)
BinFrame(p) == [fn |-> "parse_binary_op", at |-> "start", entry |-> p,
                left |-> None, op |-> Tok("EOF"), prims |-> <<>>, opsSeen |-> <<>>]

Running(f, a) == pc = "parse" /\ stack # <<>> /\ Top.fn = f /\ Top.at = a
Returned == ret # NoRet

Return(v) == /\ stack' = Pop
             /\ ret' = v
             /\ UNCHANGED << pc, error >>
Panic(msg) == /\ pc' = "panic"
              /\ error' = msg
              /\ UNCHANGED << stack, ret >>
Call(caller, callee) == /\ stack' = Append(ReplaceTop(caller), callee)
                        /\ ret' = NoRet
                        /\ UNCHANGED << pc, error >>

parserFrame == << input, cursor, last_token_was_atom, in_conditional, tokens,
                  formulas, fidx, used, knowledge_base, mainVars, evalVars >>

(* parse_primary: match self.tokens.next() *)
PrimaryArm(types) == Running("parse_primary", "start") /\ Peek.type \in types

PrimaryIf ==
    /\ PrimaryArm({"If"})
    /\ pos' = Advance
    /\ Call(At("tail"), Frame("parse_conditional", pos'))
    /\ UNCHANGED parserFrame

PrimaryIff ==
    /\ PrimaryArm({"Iff"})
    /\ pos' = Advance
    /\ Call(At("tail"), Frame("parse_conditional", pos'))
    /\ UNCHANGED parserFrame

PrimaryAtom ==
    /\ PrimaryArm({"Atom"})
    /\ pos' = Advance
    /\ Return(Some(Atom(Peek.name)))
    /\ UNCHANGED parserFrame

PrimaryNot ==
    /\ PrimaryArm({"Not"})
    /\ pos' = Advance
    /\ Call(At("tail"), Frame("parse_not", pos'))
    /\ UNCHANGED parserFrame

PrimaryOpenParen ==
    /\ PrimaryArm({"OpenParen"})
    /\ pos' = Advance
    /\ Call(At("tail"), Frame("parse_parenthesized_expr", pos'))
    /\ UNCHANGED parserFrame

PrimaryThen ==
    /\ PrimaryArm({"Then"})
    /\ pos' = Advance
    /\ Panic("Unexpected 'then' keyword without preceding 'if'")
    /\ UNCHANGED parserFrame

\* _ => None: And, Or, CloseParen, or no token at all
PrimaryOther ==
    /\ PrimaryArm({"And", "Or", "CloseParen", "EOF"})
    /\ pos' = Advance
    /\ Return(None)
    /\ UNCHANGED parserFrame

\* the arm's value is the callee's value
PrimaryTail ==
    /\ Running("parse_primary", "tail") /\ Returned
    /\ Return(ret)
    /\ UNCHANGED << pos, parserFrame >>

(* parse_not *)
NotStart ==
    /\ Running("parse_not", "start")
    /\ Call(At("operand"), Frame("parse_primary", pos))
    /\ UNCHANGED << pos, parserFrame >>

NotDone ==
    /\ Running("parse_not", "operand") /\ Returned
    /\ IF ret.some
       THEN Return(Some(Not(ret.node)))
       ELSE Panic("Expected expression after NOT")
    /\ UNCHANGED << pos, parserFrame >>

(* parse_expr = parse_binary_op(parse_primary, [And, Or]) *)
ExprOps == {"And", "Or"}

\* a fold that nests to the right
BuildBinaryRight(op, left, right) ==
    IF left.kind \in {"And", "Or"}
    THEN [left EXCEPT !.right = [kind |-> op.type, left |-> left.right, right |-> right]]
    ELSE [kind |-> op.type, left |-> left, right |-> right]

\* left = match op { ... }
BuildBinary(op, left, right) ==
    CASE op.type = "And" -> And(left, right)
      [] op.type = "Or"  -> Or(left, right)
      [] op.type = "If"  -> If(left, right)
      [] op.type = "Iff" -> Iff(left, right)

BinStart ==
    /\ Running("parse_binary_op", "start")
    /\ Call(At("left"), Frame("parse_primary", pos))
    /\ UNCHANGED << pos, parserFrame >>

\* let mut left = parse_left(self)?
BinLeft ==
    /\ Running("parse_binary_op", "left") /\ Returned
    /\ IF ret.some
       THEN /\ stack' = ReplaceTop([Top EXCEPT !.at = "loop", !.left = ret.node,
                                               !.prims = <<ret.node>>])
            /\ ret' = NoRet
            /\ UNCHANGED << pc, error >>
       ELSE Return(None)
    /\ UNCHANGED << pos, parserFrame >>

\* while let Some(op) = peek(), op in ops: next(), parse_left
BinOperator ==
    /\ Running("parse_binary_op", "loop")
    /\ Peek.type \in ExprOps
    /\ pos' = Advance
    /\ Call([Top EXCEPT !.at = "right", !.op = Peek,
                        !.opsSeen = Append(@, Peek.type)],
            Frame("parse_primary", pos'))
    /\ UNCHANGED parserFrame

\* the loop ends: no token, or a token that is not in ops
BinBreak ==
    /\ Running("parse_binary_op", "loop")
    /\ Peek.type \notin ExprOps
    /\ Return(Some(Top.left))
    /\ UNCHANGED << pos, parserFrame >>

\* let right = parse_left(self)?; left = match op { ... }
BinRight ==
    /\ Running("parse_binary_op", "right") /\ Returned
    /\ IF ret.some
       THEN /\ stack' = ReplaceTop([Top EXCEPT !.at = "loop",
                                !.left = BuildBinary(Top.op, Top.left, ret.node),
                                !.prims = Append(@, ret.node)])
            /\ ret' = NoRet
            /\ UNCHANGED << pc, error >>
       ELSE Return(None)
    /\ UNCHANGED << pos, parserFrame >>

(* parse_conditional *)
\* a conditional that keeps the biconditional
ConditionalAsIff(condition, consequence) == Iff(condition, consequence)

Conditional(condition, consequence) == If(condition, consequence)

CondStart ==
    /\ Running("parse_conditional", "start")
    /\ Call(At("condition"), BinFrame(pos))
    /\ UNCHANGED << pos, parserFrame >>

\* let condition = self.parse_expr()?; if let Some(Token::Then) = self.tokens.next()
CondThen ==
    /\ Running("parse_conditional", "condition") /\ Returned
    /\ IF ~ret.some
       THEN Return(None) /\ UNCHANGED pos
       ELSE /\ pos' = Advance
            /\ IF Peek.type = "Then"
               THEN Call([fn |-> "parse_conditional", at |-> "consequence",
                          entry |-> Top.entry, condition |-> ret.node],
                         BinFrame(pos'))
               ELSE Panic("Expected 'then' keyword")
    /\ UNCHANGED parserFrame

CondDone ==
    /\ Running("parse_conditional", "consequence") /\ Returned
    /\ IF ret.some
       THEN Return(Some(Conditional(Top.condition, ret.node)))
       ELSE Return(None)
    /\ UNCHANGED << pos, parserFrame >>

(* parse_parenthesized_expr *)
\* the position after the opening statement self.tokens.next(): one more token
\* is taken although parse_primary has already taken the OpenParen
ParenEnter == Advance

ParenStart ==
    /\ Running("parse_parenthesized_expr", "start")
    /\ pos' = ParenEnter
    /\ Call(At("expr"), BinFrame(pos'))
    /\ UNCHANGED parserFrame

ParenClose ==
    /\ Running("parse_parenthesized_expr", "expr") /\ Returned
    /\ IF ~ret.some
       THEN Return(None) /\ UNCHANGED pos
       ELSE IF Peek.type = "CloseParen"
            THEN pos' = Advance /\ Return(ret)
            ELSE Panic("Missing closing parenthesis") /\ UNCHANGED pos
    /\ UNCHANGED parserFrame

(* main, lines 13-18: parser.parse().expect("Syntax error"), push, next formula *)
ParseReturned == pc = "parse" /\ stack = <<>> /\ Returned

ParseOk ==
    /\ ParseReturned /\ ret.some
    /\ knowledge_base' = Append(knowledge_base, ret.node)
    /\ used' = Append(used, pos)
    /\ ret' = NoRet
    /\ IF fidx = Len(formulas)
       THEN /\ pc' = "parsed"
            /\ UNCHANGED << tokens, pos, stack, fidx >>
       ELSE /\ fidx' = fidx + 1
            /\ tokens' = formulas[fidx + 1]
            /\ pos' = 0
            /\ stack' = << BinFrame(0) >>
            /\ UNCHANGED pc
    /\ UNCHANGED << error, formulas, lexVars, mainVars, evalVars >>

ParseNone ==
    /\ ParseReturned /\ ~ret.some
    /\ pc' = "panic"
    /\ error' = "Syntax error"
    /\ UNCHANGED << lexVars, tokens, parseVars, knowledge_base, mainVars, evalVars >>

ParseNext ==
    \/ PrimaryIf \/ PrimaryIff \/ PrimaryAtom \/ PrimaryNot \/ PrimaryOpenParen
    \/ PrimaryThen \/ PrimaryOther \/ PrimaryTail
    \/ NotStart \/ NotDone
    \/ BinStart \/ BinLeft \/ BinOperator \/ BinBreak \/ BinRight
    \/ CondStart \/ CondThen \/ CondDone
    \/ ParenStart \/ ParenClose
    \/ ParseOk \/ ParseNone

(***************************************************************************)
(* Inputs of the parser: token vectors, alone or in lists of two           *)
(***************************************************************************)
NameA == <<"a">>
NameB == <<"b">>
NameC == <<"c">>
A == AtomTok(NameA)
B == AtomTok(NameB)
C == AtomTok(NameC)
AllToks == {A, B, Tok("Not"), Tok("And"), Tok("Or"), Tok("If"), Tok("Iff"),
            Tok("Then"), Tok("OpenParen"), Tok("CloseParen")}

MaxTokens == 3
MaxChainOps == 2
MaxCondDepth == 1

\* any token vector up to MaxTokens
AnyToks == SeqsUpTo(AllToks, MaxTokens)

\* a list of formulas as main parses it: one token vector, or a vector
\* followed by the same formula in parentheses, with the closing parenthesis
\* missing, or spelled with if for iff

\* p0 op1 p1 ... opk pk, each p an atom or a negated atom
ChainPrimaries == {<<A>>, <<B>>, <<C>>, <<Tok("Not"), A>>}
RECURSIVE Chains(_)
Chains(k) ==
    IF k = 0 THEN ChainPrimaries
    ELSE LET S == Chains(k - 1)
         IN S \cup {c \o <<Tok(o)>> \o p : c \in S, o \in ExprOps, p \in ChainPrimaries}

\* (if | iff) X then Y, nested to MaxCondDepth
CondParts == {<<A>>, <<B>>, <<Tok("Not"), A>>, <<A, Tok("And"), B>>}
RECURSIVE Conds(_)
Conds(d) ==
    IF d = 0 THEN CondParts
    ELSE LET S == Conds(d - 1)
         IN S \cup {<<Tok(o)>> \o x \o <<Tok("Then")>> \o y :
                       o \in {"If", "Iff"}, x \in S, y \in S}

\* the same tokens written with if for every iff
IffToIf(ts) == [i \in 1..Len(ts) |-> IF ts[i] = Tok("Iff") THEN Tok("If") ELSE ts[i]]
Parenthesized(ts) == <<Tok("OpenParen")>> \o ts \o <<Tok("CloseParen")>>
Unclosed(ts) == <<Tok("OpenParen")>> \o ts

ParseInit ==
    /\ pc = "parse"
    /\ error = ""
    /\ \/ \E ts \in AnyToks :
             formulas \in {<<ts>>, <<ts, Parenthesized(ts)>>, <<ts, Unclosed(ts)>>}
       \/ \E ts \in Chains(MaxChainOps) : formulas = <<ts>>
       \/ \E ts \in Conds(MaxCondDepth) : formulas \in {<<ts>>, <<ts, IffToIf(ts)>>}
    /\ fidx = 1
    /\ tokens = formulas[1]
    /\ pos = 0 /\ stack = << BinFrame(0) >> /\ ret = NoRet /\ used = <<>>
    /\ input = <<>> /\ cursor = 0
    /\ last_token_was_atom = FALSE /\ in_conditional = FALSE
    /\ knowledge_base = <<>> /\ alpha_ast = None
    /\ atoms = {} /\ atom_names = <<>> /\ truth_values = <<>>
    /\ combination = 0 /\ ta = 0 /\ valid = TRUE
    /\ ast = None /\ truth_assignment = <<>> /\ value = FALSE

SpecParse == ParseInit /\ [][ParseNext]_vars
\* the program is one thread that runs to completion: a step that can be
\* taken is taken
SpecParseFair == SpecParse /\ WF_vars(ParseNext)

(***************************************************************************)
(* evaluate                                                                *)
(***************************************************************************)
\* a lookup that takes an unknown atom for true
LookupDefaultTrue(asg, name) == IF name \in DOMAIN asg THEN asg[name] ELSE TRUE

\* *truth_assignment.get(atom).unwrap_or(&false)
Lookup(asg, name) == IF name \in DOMAIN asg THEN asg[name] ELSE FALSE

\* the Iff arm
IffValue(left_result, right_result) ==
    (~left_result \/ right_result) /\ (left_result \/ ~right_result)

RECURSIVE evaluate(_, _)
evaluate(node, asg) ==
    CASE node.kind = "Atom" -> Lookup(asg, node.name)
      [] node.kind = "Not"  -> ~evaluate(node.sub, asg)
      [] node.kind = "And"  -> evaluate(node.left, asg) /\ evaluate(node.right, asg)
      [] node.kind = "Or"   -> evaluate(node.left, asg) \/ evaluate(node.right, asg)
      [] node.kind = "If"   -> ~evaluate(node.left, asg) \/ evaluate(node.right, asg)
      [] node.kind = "Iff"  -> IffValue(evaluate(node.left, asg), evaluate(node.right, asg))

(***************************************************************************)
(* find_atoms                                                              *)
(***************************************************************************)
RECURSIVE find_atoms(_)
find_atoms(node) ==
    CASE node.kind = "Atom" -> {node.name}
      [] node.kind = "Not"  -> find_atoms(node.sub)
      [] OTHER              -> find_atoms(node.left) \cup find_atoms(node.right)

(***************************************************************************)
(* generate_truth_values                                                   *)
(***************************************************************************)
RECURSIVE Pow2(_)
Pow2(n) == IF n = 0 THEN 1 ELSE 2 * Pow2(n - 1)

\* vec![HashMap::new(); 1 << atoms.len()]
EmptyMap == [x \in {} |-> FALSE]
Allocate(n) == [k \in 1..Pow2(n) |-> EmptyMap]

\* a bit test that is off by one position
BitSetShifted(c, i) == (c \div Pow2(i + 1)) % 2 = 1

\* (combination & (1 << i)) != 0
BitSet(c, i) == (c \div Pow2(i)) % 2 = 1

\* HashMap::insert
Insert(m, k, v) == [x \in DOMAIN m \cup {k} |-> IF x = k THEN v ELSE m[x]]

\* for (i, atom_name) in atom_names.iter().enumerate(): insert, from position i on
RECURSIVE InsertFrom(_, _, _, _)
InsertFrom(m, names, c, i) ==
    IF i >= Len(names) THEN m
    ELSE InsertFrom(Insert(m, names[i + 1], BitSet(c, i)), names, c, i + 1)

Orderings(S) == {q \in [1..Cardinality(S) -> S] : \A i, j \in DOMAIN q : i # j => q[i] # q[j]}

genFrame == << error, lexVars, tokens, parseVars, knowledge_base, alpha_ast, ta, valid, evalVars >>

\* let atom_names = atoms.keys().cloned().collect(): some iteration order
GenStart ==
    /\ pc = "generate_truth_values"
    /\ atom_names' \in Orderings(atoms)
    /\ combination' = 0
    /\ pc' = "combinations"
    /\ UNCHANGED << atoms, truth_values, genFrame >>

\* one turn of for combination in 0..(1 << atoms.len()); index runs with it
GenCombination ==
    /\ pc = "combinations"
    /\ combination < Pow2(Cardinality(atoms))
    /\ truth_values' = [truth_values EXCEPT ![combination + 1] =
                            InsertFrom(@, atom_names, combination, 0)]
    /\ combination' = combination + 1
    /\ UNCHANGED << pc, atoms, atom_names, genFrame >>

GenReturn ==
    /\ pc = "combinations"
    /\ combination >= Pow2(Cardinality(atoms))
    /\ pc' = "generated"
    /\ UNCHANGED << atoms, atom_names, truth_values, combination, genFrame >>

GenNext == GenStart \/ GenCombination \/ GenReturn

MaxAtoms == 4
GenNames == {<<"a">>, <<"b">>, <<"c">>, <<"d">>, <<"e">>}

GenInit ==
    /\ pc = "generate_truth_values"
    /\ error = ""
    /\ atoms \in {S \in SUBSET GenNames : Cardinality(S) <= MaxAtoms}
    /\ truth_values = Allocate(Cardinality(atoms))
    /\ atom_names = <<>> /\ combination = 0
    /\ input = <<>> /\ cursor = 0 /\ tokens = <<>>
    /\ last_token_was_atom = FALSE /\ in_conditional = FALSE
    /\ formulas = <<>> /\ fidx = 0 /\ pos = 0 /\ stack = <<>> /\ ret = NoRet /\ used = <<>>
    /\ knowledge_base = <<>> /\ alpha_ast = None
    /\ ta = 0 /\ valid = TRUE
    /\ ast = None /\ truth_assignment = <<>> /\ value = FALSE

SpecGen == GenInit /\ [][GenNext]_vars

(***************************************************************************)
(* evaluate, applied to one AST and one assignment                         *)
(***************************************************************************)
Evaluate ==
    /\ pc = "evaluate"
    /\ value' = evaluate(ast, truth_assignment)
    /\ pc' = "evaluated"
    /\ UNCHANGED << error, lexVars, tokens, parseVars, knowledge_base, mainVars,
                    ast, truth_assignment >>

EvalNext == Evaluate

MaxNodes == 5
EvalNames == {<<"a">>, <<"b">>}
BinaryKinds == {"And", "Or", "If", "Iff"}

\* the ASTs of exactly n nodes over EvalNames
RECURSIVE AstsOfSize(_)
AstsOfSize(n) ==
    IF n = 1 THEN {Atom(x) : x \in EvalNames}
    ELSE {Not(x) : x \in AstsOfSize(n - 1)}
         \cup UNION {{[kind |-> k, left |-> l, right |-> r] :
                         k \in BinaryKinds, l \in AstsOfSize(i), r \in AstsOfSize(n - 1 - i)} :
                     i \in 1..(n - 2)}
EvalAsts == UNION {AstsOfSize(n) : n \in 1..MaxNodes}
\* assignments over any part of EvalNames: an atom of the AST may be absent
PartialAssignments == UNION {[D -> BOOLEAN] : D \in SUBSET EvalNames}

EvalInit ==
    /\ pc = "evaluate"
    /\ error = ""
    /\ ast \in EvalAsts
    /\ truth_assignment \in PartialAssignments
    /\ value = FALSE
    /\ input = <<>> /\ cursor = 0 /\ tokens = <<>>
    /\ last_token_was_atom = FALSE /\ in_conditional = FALSE
    /\ formulas = <<>> /\ fidx = 0 /\ pos = 0 /\ stack = <<>> /\ ret = NoRet /\ used = <<>>
    /\ knowledge_base = <<>> /\ alpha_ast = None
    /\ atoms = {} /\ atom_names = <<>> /\ truth_values = <<>>
    /\ combination = 0 /\ ta = 0 /\ valid = TRUE

SpecEval == EvalInit /\ [][EvalNext]_vars

(***************************************************************************)
(* main, lines 27-50: the entailment check                                 *)
(***************************************************************************)
mainFrame == << error, lexVars, tokens, parseVars, knowledge_base, alpha_ast, evalVars >>

\* lines 27-33: collect the atoms of every formula, allocate the table
MainAtoms ==
    /\ pc = "atoms"
    /\ atoms' = UNION {find_atoms(knowledge_base[i]) : i \in 1..Len(knowledge_base)}
                    \cup find_atoms(alpha_ast)
    /\ truth_values' = Allocate(Cardinality(atoms'))
    /\ pc' = "generate_truth_values"
    /\ UNCHANGED << atom_names, combination, ta, valid, mainFrame >>

\* a test that is content with one formula of the knowledge base
KbHoldsAny(asg) == \E i \in 1..Len(knowledge_base) : evaluate(knowledge_base[i], asg)

\* knowledge_base.iter().all(|ast| evaluate(ast, truth_assignment))
KbHolds(asg) == \A i \in 1..Len(knowledge_base) : evaluate(knowledge_base[i], asg)

Visiting == pc = "generated" /\ ta < Len(truth_values)

\* the assignment falsifies a formula of the knowledge base: next assignment
MainSkip ==
    /\ Visiting
    /\ ~KbHolds(truth_values[ta + 1])
    /\ ta' = ta + 1
    /\ UNCHANGED << pc, atoms, atom_names, truth_values, combination, valid, mainFrame >>

\* the assignment satisfies the knowledge base and alpha: next assignment
MainModel ==
    /\ Visiting
    /\ KbHolds(truth_values[ta + 1])
    /\ evaluate(alpha_ast, truth_values[ta + 1])
    /\ ta' = ta + 1
    /\ UNCHANGED << pc, atoms, atom_names, truth_values, combination, valid, mainFrame >>

\* the assignment satisfies the knowledge base and not alpha: valid = false; break
MainCounterModel ==
    /\ Visiting
    /\ KbHolds(truth_values[ta + 1])
    /\ ~evaluate(alpha_ast, truth_values[ta + 1])
    /\ valid' = FALSE
    /\ pc' = "verdict"
    /\ UNCHANGED << ta, atoms, atom_names, truth_values, combination, mainFrame >>

\* the loop has visited every assignment
MainEnd ==
    /\ pc = "generated"
    /\ ta >= Len(truth_values)
    /\ pc' = "verdict"
    /\ UNCHANGED << ta, valid, atoms, atom_names, truth_values, combination, mainFrame >>

MainNext == \/ MainAtoms \/ GenStart \/ GenCombination \/ GenReturn
            \/ MainSkip \/ MainModel \/ MainCounterModel \/ MainEnd

MaxKB == 2
\* formulas as the parser builds them (it builds no Iff node) over two atoms
MainFormulas ==
    {Atom(NameA), Atom(NameB), Not(Atom(NameA)), Not(Atom(NameB))}
    \cup {[kind |-> k, left |-> Atom(xy[1]), right |-> Atom(xy[2])] :
             k \in {"And", "Or", "If"}, xy \in {<<NameA, NameB>>, <<NameB, NameA>>}}

MainInit ==
    /\ pc = "atoms"
    /\ error = ""
    /\ knowledge_base \in UNION {[1..k -> MainFormulas] : k \in 1..MaxKB}
    /\ alpha_ast \in MainFormulas
    /\ atoms = {} /\ atom_names = <<>> /\ truth_values = <<>>
    /\ combination = 0 /\ ta = 0 /\ valid = TRUE
    /\ input = <<>> /\ cursor = 0 /\ tokens = <<>>
    /\ last_token_was_atom = FALSE /\ in_conditional = FALSE
    /\ formulas = <<>> /\ fidx = 0 /\ pos = 0 /\ stack = <<>> /\ ret = NoRet /\ used = <<>>
    /\ ast = None /\ truth_assignment = <<>> /\ value = FALSE

SpecMain == MainInit /\ [][MainNext]_vars

(***************************************************************************)
(* Properties of lex                                                       *)
(***************************************************************************)
Count(ts, types) == Cardinality({i \in 1..Len(ts) : ts[i].type \in types})
AdjacentAtoms(ts) == {i \in 1..(Len(ts) - 1) : ts[i].type = "Atom" /\ ts[i+1].type = "Atom"}
AtomsError == "Expected operator between atoms"

\* C4: in every prefix of the tokens lex has pushed there are at most as many
\* Then tokens as If and Iff tokens (a then needs an opener that no earlier
\* then has closed), so a second then after a single if is refused.
C4_ThenNeverOutnumbersIf ==
    pc \in {"lex", "lexed"} =>
        \A k \in 0..Len(tokens) :
            Count(SubSeq(tokens, 1, k), {"Then"}) <= Count(SubSeq(tokens, 1, k), {"If", "Iff"})

\* C9: lex panics with the missing-operator error exactly when the token it
\* has just pushed is an atom that directly follows an atom, whatever
\* characters were skipped between the two; so a token vector that lex returns
\* holds no two atoms in a row, and "a b" and "a1b" are refused.
C9_NoAdjacentAtoms ==
    /\ pc \in {"lex", "lexed"} => AdjacentAtoms(tokens) = {}
    /\ pc = "panic" /\ error = AtomsError => AdjacentAtoms(tokens) = {Len(tokens) - 1}
    /\ pc = "panic" /\ error # AtomsError => AdjacentAtoms(tokens) = {}
    /\ input \in {<<"a", " ", "b">>, <<"a", "1", "b">>} /\ cursor = Len(input)
            => pc = "panic" /\ error = AtomsError

\* "a1b" has been refused at its second atom
C9_Witness ==
    /\ input = <<"a", "1", "b">>
    /\ pc = "panic" /\ error = AtomsError
    /\ tokens = <<AtomTok(<<"a">>), AtomTok(<<"b">>)>>

(***************************************************************************)
(* Properties of the parser                                                *)
(***************************************************************************)
Node(k, l, r) == [kind |-> k, left |-> l, right |-> r]
Front(q) == SubSeq(q, 1, Len(q) - 1)
Last(q) == q[Len(q)]

RECURSIVE LeftFold(_, _)
LeftFold(ps, os) ==
    IF Len(ps) = 1 THEN ps[1]
    ELSE Node(Last(os), LeftFold(Front(ps), Front(os)), Last(ps))

RECURSIVE ContainsIff(_)
ContainsIff(n) ==
    CASE n.kind = "Atom" -> FALSE
      [] n.kind = "Not" -> ContainsIff(n.sub)
      [] n.kind = "Iff" -> TRUE
      [] OTHER -> ContainsIff(n.left) \/ ContainsIff(n.right)

RECURSIVE PrimaryAst(_)
PrimaryAst(p) == IF p[1].type = "Not" THEN Not(PrimaryAst(Tail(p))) ELSE Atom(p[1].name)

\* the chains of Chains(k), each with the left fold of its primaries
RECURSIVE FoldedChains(_)
FoldedChains(k) ==
    IF k = 0 THEN {[toks |-> p, fold |-> PrimaryAst(p)] : p \in ChainPrimaries}
    ELSE LET S == FoldedChains(k - 1)
         IN S \cup {[toks |-> c.toks \o <<Tok(o)>> \o p,
                     fold |-> Node(o, c.fold, PrimaryAst(p))] :
                       c \in S, o \in ExprOps, p \in ChainPrimaries}
ChainCases == FoldedChains(MaxChainOps)

Settled == ParseReturned \/ pc = "panic"
HasIff(ts) == \E i \in 1..Len(ts) : ts[i] = Tok("Iff")
Assignments(names) == UNION {[D -> BOOLEAN] : D \in SUBSET names}

\* C2: when E has been parsed to T with all of its tokens consumed, the
\* parse of ( E ) returns T and consumes every token up to and including the
\* closing parenthesis, and the parse of ( E with nothing after it panics
\* with the missing-closing-parenthesis error.
C2_ParenthesizedIsInner ==
    (fidx = 2 /\ Settled /\ used[1] = Len(formulas[1])) =>
        /\ tokens = Parenthesized(formulas[1]) =>
              ParseReturned /\ ret = Some(knowledge_base[1]) /\ pos = Len(tokens)
        /\ tokens = Unclosed(formulas[1]) =>
              pc = "panic" /\ error = "Missing closing parenthesis"

\* C3: parse returns an AST only when it has consumed every token.
C3_NoLeftoverTokens ==
    ParseReturned /\ ret.some => pos = Len(tokens)

\* C5: every parse_expr that has folded operands P0..Pk with operators
\* op1..opk holds the left fold opk(...op1(P0,P1)...,Pk), And and Or alike in
\* the order met; a chain of atoms and negated atoms joined by and/or parses
\* to the left fold of its primaries with every token consumed, so
\* a and b or c is Or(And(a,b),c) and a or b and c is And(Or(a,b),c).
C5_LeftFold ==
    /\ pc = "parse" =>
          \A i \in 1..Len(stack) :
              (stack[i].fn = "parse_binary_op" /\ stack[i].at \in {"loop", "right"}) =>
                  /\ Len(stack[i].prims) = Len(stack[i].opsSeen) + (IF stack[i].at = "loop" THEN 1 ELSE 0)
                  /\ stack[i].left = LeftFold(stack[i].prims,
                                              SubSeq(stack[i].opsSeen, 1, Len(stack[i].prims) - 1))
    /\ Settled =>
          \A c \in ChainCases :
              tokens = c.toks => ParseReturned /\ ret = Some(c.fold) /\ pos = Len(tokens)
    /\ Settled /\ tokens = <<A, Tok("And"), B, Tok("Or"), C>>
          => ret = Some(Or(And(Atom(NameA), Atom(NameB)), Atom(NameC)))
    /\ Settled /\ tokens = <<A, Tok("Or"), B, Tok("And"), C>>
          => ret = Some(And(Or(Atom(NameA), Atom(NameB)), Atom(NameC)))

\* a and b or c has been parsed
C5_Witness ==
    /\ ParseReturned
    /\ tokens = <<A, Tok("And"), B, Tok("Or"), C>>
    /\ ret = Some(Or(And(Atom(NameA), Atom(NameB)), Atom(NameC)))

\* C6: no AST that parse returns holds an Iff node; the parse of
\* "iff X then Y" is an If node, the parse of the same tokens written with if
\* is the same AST, and its value under every assignment is the implication's.
C6_IffParsedAsIf ==
    /\ ParseReturned /\ ret.some => ~ContainsIff(ret.node)
    /\ \A i \in 1..Len(knowledge_base) : ~ContainsIff(knowledge_base[i])
    /\ (ParseReturned /\ ret.some /\ tokens # <<>> /\ tokens[1].type \in {"If", "Iff"}
           /\ pos = Len(tokens)) =>
          /\ ret.node.kind = "If"
          /\ \A asg \in Assignments({NameA, NameB}) :
                evaluate(ret.node, asg)
                   = (~evaluate(ret.node.left, asg) \/ evaluate(ret.node.right, asg))
    /\ (fidx = 2 /\ Settled /\ HasIff(formulas[1]) /\ tokens = IffToIf(formulas[1])) =>
          /\ ParseReturned
          /\ ret = Some(knowledge_base[1])
          /\ pos = used[1]

\* iff a then b and then if a then b have both been parsed to If(a, b)
C6_Witness ==
    /\ pc = "parsed"
    /\ formulas = << <<Tok("Iff"), A, Tok("Then"), B>>, <<Tok("If"), A, Tok("Then"), B>> >>
    /\ knowledge_base = << If(Atom(NameA), Atom(NameB)), If(Atom(NameA), Atom(NameB)) >>

\* C10: within one parse the iterator only moves forward, one token at a
\* time and never past the end; parse_primary takes a token whenever one is
\* left, and so does every turn of the parse_binary_op loop that finds an
\* operator; and every parse ends, with an AST, with None or with a panic.
C10_StepProgress ==
    /\ (pc = "parse" /\ fidx' = fidx) => (pos' \in {pos, pos + 1} /\ pos' <= Len(tokens))
    /\ (Running("parse_primary", "start") /\ ~AtEnd) => pos' = pos + 1
    /\ (Running("parse_binary_op", "loop") /\ Len(stack') > Len(stack)) => pos' = pos + 1
    /\ (pc = "parse" /\ stack # <<>> /\ Top.fn = "parse_primary" /\ Len(stack') < Len(stack))
          => (pos' > Top.entry \/ Top.entry = Len(tokens))
\* C10: every step of the parser keeps the progress conditions above, and
\* every parse terminates.
C10_ParserTerminates ==
    /\ [][C10_StepProgress]_vars
    /\ <>(pc \in {"parsed", "panic"})

\* a parse of three tokens has returned an AST with every token consumed
C10_Witness ==
    /\ ParseReturned /\ ret.some
    /\ Len(tokens) = 3 /\ pos = 3

(***************************************************************************)
(* Properties of generate_truth_values, evaluate and the entailment check  *)
(***************************************************************************)
RECURSIVE Encoded(_, _, _)
\* the number whose binary digits, lowest first, are asg's values along names
Encoded(asg, names, i) ==
    IF i > Len(names) THEN 0
    ELSE (IF asg[names[i]] THEN Pow2(i - 1) ELSE 0) + Encoded(asg, names, i + 1)

\* C7: generate_truth_values leaves exactly 2^n assignments (one empty
\* assignment for n = 0), each total over exactly the atom set, no two equal,
\* and along the one ordering atom_names the assignment at index c spells c
\* in binary: the atom at position i is true iff bit i of c is set.
C7_Enumeration ==
    pc = "generated" =>
        /\ Len(truth_values) = Pow2(Cardinality(atoms))
        /\ Len(atom_names) = Cardinality(atoms)
        /\ {atom_names[i] : i \in 1..Len(atom_names)} = atoms
        /\ \A c \in 1..Len(truth_values) :
              /\ DOMAIN truth_values[c] = atoms
              /\ Encoded(truth_values[c], atom_names, 1) = c - 1
        /\ \A c, d \in 1..Len(truth_values) : c # d => truth_values[c] # truth_values[d]
        /\ {truth_values[c] : c \in 1..Len(truth_values)} = [atoms -> BOOLEAN]

\* the table of three atoms is complete
C7_Witness ==
    /\ pc = "generated"
    /\ Cardinality(atoms) = 3
    /\ Len(truth_values) = 8
    /\ truth_values[6][atom_names[1]] /\ ~truth_values[6][atom_names[2]]
    /\ truth_values[6][atom_names[3]]

\* the truth conditions the specification gives, as a relation
RECURSIVE Holds(_, _)
Holds(n, asg) ==
    CASE n.kind = "Atom" -> \E x \in DOMAIN asg : x = n.name /\ asg[x] = TRUE
      [] n.kind = "Not"  -> Holds(n.sub, asg) = FALSE
      [] n.kind = "And"  -> Holds(n.left, asg) /\ Holds(n.right, asg)
      [] n.kind = "Or"   -> Holds(n.left, asg) \/ Holds(n.right, asg)
      [] n.kind = "If"   -> Holds(n.left, asg) => Holds(n.right, asg)
      [] n.kind = "Iff"  -> Holds(n.left, asg) = Holds(n.right, asg)

\* C8: evaluate yields a boolean for every AST and every assignment, also
\* a partial one; an absent atom counts as false, Not negates, And and Or
\* are conjunction and disjunction, If is (not l) or r, Iff is true iff both
\* sides have the same value, each of them over the values of the node's
\* children.
C8_EvaluatorSemantics ==
    pc = "evaluated" =>
        /\ value \in BOOLEAN
        /\ value = Holds(ast, truth_assignment)
        /\ ast.kind = "Atom" /\ ast.name \notin DOMAIN truth_assignment => value = FALSE
        /\ ast.kind = "Atom" /\ ast.name \in DOMAIN truth_assignment
              => value = truth_assignment[ast.name]
        /\ ast.kind = "Not" => value = ~evaluate(ast.sub, truth_assignment)
        /\ ast.kind = "And" => value = (evaluate(ast.left, truth_assignment)
                                          /\ evaluate(ast.right, truth_assignment))
        /\ ast.kind = "Or" => value = (evaluate(ast.left, truth_assignment)
                                         \/ evaluate(ast.right, truth_assignment))
        /\ ast.kind = "If" => value = (~evaluate(ast.left, truth_assignment)
                                         \/ evaluate(ast.right, truth_assignment))
        /\ ast.kind = "Iff" => value = (evaluate(ast.left, truth_assignment)
                                          = evaluate(ast.right, truth_assignment))

\* Iff(a, Not(b)) is true where a is true and b is absent
C8_Witness ==
    /\ pc = "evaluated"
    /\ ast = Iff(Atom(NameA), Not(Atom(NameB)))
    /\ truth_assignment = [x \in {NameA} |-> TRUE]
    /\ value = TRUE

AllAtoms == UNION {find_atoms(knowledge_base[i]) : i \in 1..Len(knowledge_base)}
               \cup find_atoms(alpha_ast)

\* C1: the verdict is true iff every assignment over the atoms of the
\* knowledge base and of alpha that makes all formulas of the knowledge base
\* true makes alpha true.
C1_Entailment ==
    pc = "verdict" =>
        (valid <=> \A asg \in [AllAtoms -> BOOLEAN] :
                      (\A i \in 1..Len(knowledge_base) : Holds(knowledge_base[i], asg))
                          => Holds(alpha_ast, asg))

\* KB = [a, if a then b] entails b: no assignment was a counter-model
C1_Witness ==
    /\ pc = "verdict"
    /\ knowledge_base = <<Atom(NameA), If(Atom(NameA), Atom(NameB))>>
    /\ alpha_ast = Atom(NameB)
    /\ valid = TRUE /\ ta = 4

=============================================================================
